---- MODULE Spec2Model ----
(***************************************************************************)
(* Mergington High School activities API (src/src/app.py).                 *)
(*                                                                         *)
(* The program's state is the module-level dictionary `activities`; the    *)
(* three request handlers get_activities, signup_for_activity and          *)
(* unregister_from_activity read and mutate it.  Three specifications:     *)
(*   Spec      requests served one after another (each handler atomic);    *)
(*   SpecCap   requests served one after another, a stream of fresh        *)
(*             students signing up for the smallest activity;              *)
(*   SpecConc  requests served by worker threads, one handler statement    *)
(*             at a time.                                                  *)
(***************************************************************************)
EXTENDS Integers, Sequences, FiniteSets, TLC

VARIABLES
    activities,   \* the in-memory activity database (app.py:23)
    last,         \* the most recent request and its response
    prev,         \* the request before it and its response
    before,       \* `activities` as it was when the most recent request arrived
    nextStudent,  \* SpecCap: index of the next fresh student of StudentPool
    pc,           \* SpecConc: per worker thread, the statement it is about to run
    req,          \* SpecConc: per worker thread, the request it serves
    resp          \* SpecConc: per worker thread, the response it produced

vars == <<activities, last, prev, before, nextStudent, pc, req, resp>>

----------------------------------------------------------------------------
(* Bounds of the model.                                                    *)

\* Spec: how many students of StudentPool send requests (besides the seed ones).
NumNewStudents == 1

\* SpecCap: how many fresh students of StudentPool sign up, one after another.
NumCapStudents == 11

\* SpecConc: how many worker threads serve a request at the same time.
NumThreads == 2

\* Emails of students that are in no seed roster (the first ones are those the
\* tests use).
StudentPool ==
    << "newstudent@mergington.edu", "duplicate@mergington.edu",
       "test@mergington.edu", "workflow@mergington.edu",
       "multisport@mergington.edu", "student@mergington.edu",
       "notregistered@mergington.edu", "test+student@mergington.edu",
       "s09@mergington.edu", "s10@mergington.edu", "s11@mergington.edu",
       "s12@mergington.edu", "s13@mergington.edu", "s14@mergington.edu",
       "s15@mergington.edu", "s16@mergington.edu" >>

Min(x, y) == IF x <= y THEN x ELSE y

NewStudents(n) == { StudentPool[i] : i \in 1..Min(n, Len(StudentPool)) }

----------------------------------------------------------------------------
(* The seed data: app.py:23-78.                                            *)

Activity(d, s, m, ps) ==
    [description |-> d, schedule |-> s, max_participants |-> m, participants |-> ps]

SeedActivities ==
    ("Soccer Team" :> Activity(
        "Join the school soccer team and compete in inter-school matches",
        "Tuesdays and Thursdays, 4:00 PM - 6:00 PM", 25,
        <<"alex@mergington.edu", "sarah@mergington.edu">>))
 @@ ("Basketball Team" :> Activity(
        "Practice basketball skills and participate in league games",
        "Mondays and Wednesdays, 4:00 PM - 5:30 PM", 15,
        <<"james@mergington.edu", "lucy@mergington.edu">>))
 @@ ("Drama Club" :> Activity(
        "Perform in school plays and develop acting skills",
        "Thursdays, 3:30 PM - 5:30 PM", 20,
        <<"emily@mergington.edu", "noah@mergington.edu">>))
 @@ ("Art Studio" :> Activity(
        "Explore various art mediums including painting, drawing, and sculpture",
        "Wednesdays, 3:00 PM - 5:00 PM", 15,
        <<"ava@mergington.edu", "liam@mergington.edu">>))
 @@ ("Science Club" :> Activity(
        "Conduct experiments and participate in science competitions",
        "Mondays, 3:30 PM - 5:00 PM", 18,
        <<"william@mergington.edu", "isabella@mergington.edu">>))
 @@ ("Debate Team" :> Activity(
        "Develop critical thinking and public speaking through competitive debates",
        "Fridays, 4:00 PM - 6:00 PM", 16,
        <<"ethan@mergington.edu", "mia@mergington.edu">>))
 @@ ("Chess Club" :> Activity(
        "Learn strategies and compete in chess tournaments",
        "Fridays, 3:30 PM - 5:00 PM", 12,
        <<"michael@mergington.edu", "daniel@mergington.edu">>))
 @@ ("Programming Class" :> Activity(
        "Learn programming fundamentals and build software projects",
        "Tuesdays and Thursdays, 3:30 PM - 4:30 PM", 20,
        <<"emma@mergington.edu", "sophia@mergington.edu">>))
 @@ ("Gym Class" :> Activity(
        "Physical education and sports activities",
        "Mondays, Wednesdays, Fridays, 2:00 PM - 3:00 PM", 30,
        <<"john@mergington.edu", "olivia@mergington.edu">>))

SeedNames == DOMAIN SeedActivities

----------------------------------------------------------------------------
(* Python's list operations, as the handlers use them.                     *)

\* `x in lst`
Contains(lst, x) == \E i \in 1..Len(lst) : lst[i] = x

\* lst.index(x): the first position holding x (0 when there is none)
IndexOf(lst, x) ==
    IF Contains(lst, x)
    THEN CHOOSE i \in 1..Len(lst) : lst[i] = x /\ \A j \in 1..(i - 1) : lst[j] # x
    ELSE 0

\* Mutant of ListAppend: lst.insert(0, x).
ListAppendAtFront(lst, x) == <<x>> \o lst

\* lst.append(x)
ListAppend(lst, x) == Append(lst, x)

\* Mutant of ListRemove: lst.pop(), which deletes the last element whatever x is.
ListRemoveLast(lst, x) ==
    IF Len(lst) = 0
    THEN [raised |-> TRUE, list |-> lst]
    ELSE [raised |-> FALSE, list |-> SubSeq(lst, 1, Len(lst) - 1)]

\* Mutant of ListRemove: del lst[0], which deletes the first element whatever x is.
ListRemoveHead(lst, x) ==
    IF Len(lst) = 0
    THEN [raised |-> TRUE, list |-> lst]
    ELSE [raised |-> FALSE, list |-> SubSeq(lst, 2, Len(lst))]

\* Mutant of ListRemove: the last element is moved into x's place and the list
\* is cut by one (a removal that does not keep the order).
ListRemoveBySwap(lst, x) ==
    LET i == IndexOf(lst, x) IN
    IF i = 0
    THEN [raised |-> TRUE, list |-> lst]
    ELSE [raised |-> FALSE,
          list |-> SubSeq([lst EXCEPT ![i] = lst[Len(lst)]], 1, Len(lst) - 1)]

\* lst.remove(x): deletes the first occurrence of x; raises ValueError when x
\* is not in the list (the list is then left as it is).
ListRemove(lst, x) ==
    LET i == IndexOf(lst, x) IN
    IF i = 0
    THEN [raised |-> TRUE, list |-> lst]
    ELSE [raised |-> FALSE,
          list |-> SubSeq(lst, 1, i - 1) \o SubSeq(lst, i + 1, Len(lst))]

\* activities[name]["participants"]
Participants(acts, name) == acts[name].participants

\* Mutant of WithParticipants: every activity's "participants" is one and the
\* same list object, so the change shows in all of them.
WithSharedParticipants(acts, name, ps) ==
    [n \in DOMAIN acts |-> [acts[n] EXCEPT !.participants = ps]]

\* activity["participants"] = ps, in place
WithParticipants(acts, name, ps) ==
    [acts EXCEPT ![name] = [@ EXCEPT !.participants = ps]]

----------------------------------------------------------------------------
(* Responses.  A handler returns a JSON object (200) or raises              *)
(* HTTPException(status_code, detail); an exception that is no              *)
(* HTTPException leaves the framework answering 500.                       *)

Response(status, body, acts) == [status |-> status, body |-> body, acts |-> acts]

HTTPException(status, detail, acts) == Response(status, [detail |-> detail], acts)

InternalServerError(acts) == Response(500, [detail |-> "Internal Server Error"], acts)

SignedUpMessage(activity_name, email) ==
    "Signed up " \o email \o " for " \o activity_name

UnregisteredMessage(activity_name, email) ==
    "Unregistered " \o email \o " from " \o activity_name

----------------------------------------------------------------------------
(* The handlers, each run from its first statement to its return with no   *)
(* other request in between.  Each yields the response and the database    *)
(* the handler leaves behind.                                              *)

\* Mutant of get_activities: the handler empties the rosters it returns.
get_activities_draining(acts) ==
    Response(200, acts, [n \in DOMAIN acts |-> [acts[n] EXCEPT !.participants = <<>>]])

\* app.py:86-88
get_activities(acts) == Response(200, acts, acts)

\* Mutant of signup_for_activity: no check that the student is already signed up.
signup_without_duplicate_check(acts, activity_name, email) ==
    IF activity_name \notin DOMAIN acts
    THEN HTTPException(404, "Activity not found", acts)
    ELSE Response(200,
                  [message |-> SignedUpMessage(activity_name, email)],
                  WithParticipants(acts, activity_name,
                      ListAppend(acts[activity_name].participants, email)))

\* Mutant of signup_for_activity: the append runs before the duplicate check.
signup_append_before_check(acts, activity_name, email) ==
    IF activity_name \notin DOMAIN acts
    THEN HTTPException(404, "Activity not found", acts)
    ELSE LET appended == WithParticipants(acts, activity_name,
                             ListAppend(acts[activity_name].participants, email))
         IN  IF Contains(appended[activity_name].participants, email)
             THEN HTTPException(400, "Student already signed up for this activity",
                                appended)
             ELSE Response(200, [message |-> SignedUpMessage(activity_name, email)],
                           appended)

\* Mutant of signup_for_activity: a missing activity is created on the fly.
signup_creating_activity(acts, activity_name, email) ==
    IF activity_name \notin DOMAIN acts
    THEN Response(200,
                  [message |-> SignedUpMessage(activity_name, email)],
                  (activity_name :> Activity("", "", 0, <<email>>)) @@ acts)
    ELSE IF Contains(acts[activity_name].participants, email)
    THEN HTTPException(400, "Student already signed up for this activity", acts)
    ELSE Response(200,
                  [message |-> SignedUpMessage(activity_name, email)],
                  WithParticipants(acts, activity_name,
                      ListAppend(acts[activity_name].participants, email)))

\* Mutant of signup_for_activity: a full activity takes no more students.
signup_with_capacity_check(acts, activity_name, email) ==
    IF activity_name \notin DOMAIN acts
    THEN HTTPException(404, "Activity not found", acts)
    ELSE IF Contains(acts[activity_name].participants, email)
    THEN HTTPException(400, "Student already signed up for this activity", acts)
    ELSE IF Len(acts[activity_name].participants) >= acts[activity_name].max_participants
    THEN HTTPException(400, "Activity is full", acts)
    ELSE Response(200,
                  [message |-> SignedUpMessage(activity_name, email)],
                  WithParticipants(acts, activity_name,
                      ListAppend(acts[activity_name].participants, email)))

\* Mutant of signup_for_activity: a student who is in any activity's list is
\* refused.
signup_one_activity_per_student(acts, activity_name, email) ==
    IF activity_name \notin DOMAIN acts
    THEN HTTPException(404, "Activity not found", acts)
    ELSE IF \E n \in DOMAIN acts : Contains(acts[n].participants, email)
    THEN HTTPException(400, "Student already signed up for this activity", acts)
    ELSE Response(200,
                  [message |-> SignedUpMessage(activity_name, email)],
                  WithParticipants(acts, activity_name,
                      ListAppend(acts[activity_name].participants, email)))

\* app.py:91-106
signup_for_activity(acts, activity_name, email) ==
    IF activity_name \notin DOMAIN acts
    THEN HTTPException(404, "Activity not found", acts)
    ELSE IF Contains(acts[activity_name].participants, email)
    THEN HTTPException(400, "Student already signed up for this activity", acts)
    ELSE Response(200,
                  [message |-> SignedUpMessage(activity_name, email)],
                  WithParticipants(acts, activity_name,
                      ListAppend(acts[activity_name].participants, email)))

\* Mutant of unregister_from_activity: a student who is not in the list is
\* unregistered without complaint.
unregister_without_membership_check(acts, activity_name, email) ==
    IF activity_name \notin DOMAIN acts
    THEN HTTPException(404, "Activity not found", acts)
    ELSE Response(200,
                  [message |-> UnregisteredMessage(activity_name, email)],
                  WithParticipants(acts, activity_name,
                      ListRemove(acts[activity_name].participants, email).list))

\* Mutant of unregister_from_activity: the remove runs before the membership
\* check is answered.
unregister_remove_before_raise(acts, activity_name, email) ==
    IF activity_name \notin DOMAIN acts
    THEN HTTPException(404, "Activity not found", acts)
    ELSE IF ~Contains(acts[activity_name].participants, email)
    THEN HTTPException(400, "Student not registered for this activity",
             WithParticipants(acts, activity_name,
                 ListRemoveLast(acts[activity_name].participants, email).list))
    ELSE Response(200,
                  [message |-> UnregisteredMessage(activity_name, email)],
                  WithParticipants(acts, activity_name,
                      ListRemove(acts[activity_name].participants, email).list))

\* app.py:109-124
unregister_from_activity(acts, activity_name, email) ==
    IF activity_name \notin DOMAIN acts
    THEN HTTPException(404, "Activity not found", acts)
    ELSE IF ~Contains(acts[activity_name].participants, email)
    THEN HTTPException(400, "Student not registered for this activity", acts)
    ELSE LET r == ListRemove(acts[activity_name].participants, email) IN
         IF r.raised
         THEN InternalServerError(acts)
         ELSE Response(200,
                       [message |-> UnregisteredMessage(activity_name, email)],
                       WithParticipants(acts, activity_name, r.list))

----------------------------------------------------------------------------
(* Requests served one after another.                                      *)

Call(op, activity_name, email, r) ==
    [op |-> op, activity_name |-> activity_name, email |-> email,
     status |-> r.status, body |-> r.body]

NoCall == [op |-> "none", activity_name |-> "", email |-> "",
           status |-> 0, body |-> [detail |-> ""]]

\* A call without its response body.
Summary(c) == [op |-> c.op, activity_name |-> c.activity_name,
               email |-> c.email, status |-> c.status]

Threads == 1..NumThreads

InitDb ==
    /\ activities = SeedActivities
    /\ last = NoCall
    /\ prev = Summary(NoCall)
    /\ before = SeedActivities

InitThreads ==
    /\ pc = [t \in Threads |-> "idle"]
    /\ req = [t \in Threads |-> NoCall]
    /\ resp = [t \in Threads |-> NoCall]

Init == InitDb /\ InitThreads /\ nextStudent = 1

\* One request served from start to end.
Serve(op, activity_name, email, r) ==
    /\ activities' = r.acts
    /\ last' = Call(op, activity_name, email, r)
    /\ prev' = Summary(last)
    /\ before' = activities

\* GET /activities
GetActivities ==
    /\ Serve("get", "", "", get_activities(activities))
    /\ UNCHANGED <<nextStudent, pc, req, resp>>

\* POST /activities/{activity_name}/signup?email={email}
Signup(activity_name, email) ==
    /\ Serve("signup", activity_name, email,
             signup_for_activity(activities, activity_name, email))
    /\ UNCHANGED <<nextStudent, pc, req, resp>>

\* DELETE /activities/{activity_name}/unregister?email={email}
Unregister(activity_name, email) ==
    /\ Serve("unregister", activity_name, email,
             unregister_from_activity(activities, activity_name, email))
    /\ UNCHANGED <<nextStudent, pc, req, resp>>

\* The activity names and the emails of the requests of Spec: two seed
\* activities and the name the tests use for a missing one; a seed participant
\* of the first and the first students of the pool.
ReqNames == {"Soccer Team", "Chess Club", "Nonexistent Activity"}

ReqEmails == {"alex@mergington.edu"} \cup NewStudents(NumNewStudents)

SignupForActivity == \E a \in ReqNames, e \in ReqEmails : Signup(a, e)

UnregisterFromActivity == \E a \in ReqNames, e \in ReqEmails : Unregister(a, e)

Next == GetActivities \/ SignupForActivity \/ UnregisterFromActivity

Spec == Init /\ [][Next]_vars

----------------------------------------------------------------------------
(* SpecCap: requests served one after another, students of StudentPool     *)
(* signing up, each once and in the pool's order, for the activity with    *)
(* the smallest max_participants, while a seed participant of it           *)
(* unregisters and signs up again.                                         *)

CapActivity ==
    CHOOSE a \in SeedNames :
        \A b \in SeedNames :
            SeedActivities[a].max_participants <= SeedActivities[b].max_participants

CapEmails == { Participants(SeedActivities, CapActivity)[1] }

CapSignupFresh ==
    /\ nextStudent <= Min(NumCapStudents, Len(StudentPool))
    /\ Serve("signup", CapActivity, StudentPool[nextStudent],
             signup_for_activity(activities, CapActivity, StudentPool[nextStudent]))
    /\ nextStudent' = nextStudent + 1
    /\ UNCHANGED <<pc, req, resp>>

CapSignupAgain == \E e \in CapEmails : Signup(CapActivity, e)

CapUnregister == \E e \in CapEmails : Unregister(CapActivity, e)

NextCap == GetActivities \/ CapSignupFresh \/ CapSignupAgain \/ CapUnregister

SpecCap == Init /\ [][NextCap]_vars

----------------------------------------------------------------------------
(* SpecConc: the handlers are plain `def` functions, which the framework   *)
(* runs on worker threads; a thread can be preempted between any two       *)
(* statements of a handler.  Each thread serves one signup or unregister   *)
(* request, one statement per step.                                        *)

ConcNames == {"Chess Club", "Nonexistent Activity"}

ConcEmails == {"michael@mergington.edu", "newstudent@mergington.edu"}

Request(op, activity_name, email) ==
    [op |-> op, activity_name |-> activity_name, email |-> email]

Reply(t, r) ==
    /\ resp' = [resp EXCEPT ![t] = [status |-> r.status, body |-> r.body]]
    /\ pc' = [pc EXCEPT ![t] = "done"]

\* The framework hands a request to an idle worker thread.
Receive(t) ==
    /\ pc[t] = "idle"
    /\ \E op \in {"signup", "unregister"}, a \in ConcNames, e \in ConcEmails :
         req' = [req EXCEPT ![t] = Request(op, a, e)]
    /\ pc' = [pc EXCEPT ![t] = "check_activity"]
    /\ UNCHANGED <<activities, last, prev, before, nextStudent, resp>>

\* app.py:95-99 and 113-117: `if activity_name not in activities: raise ...`
CheckActivity(t) ==
    /\ pc[t] = "check_activity"
    /\ IF req[t].activity_name \notin DOMAIN activities
       THEN Reply(t, HTTPException(404, "Activity not found", activities))
       ELSE pc' = [pc EXCEPT ![t] = "check_participant"] /\ UNCHANGED resp
    /\ UNCHANGED <<activities, last, prev, before, nextStudent, req>>

\* app.py:103-104: `if email in activity["participants"]: raise ...`
\* app.py:120-121: `if email not in activity["participants"]: raise ...`
CheckParticipant(t) ==
    /\ pc[t] = "check_participant"
    /\ LET present == Contains(activities[req[t].activity_name].participants,
                               req[t].email)
       IN  IF req[t].op = "signup" /\ present
           THEN Reply(t, HTTPException(400,
                          "Student already signed up for this activity", activities))
           ELSE IF req[t].op = "unregister" /\ ~present
           THEN Reply(t, HTTPException(400,
                          "Student not registered for this activity", activities))
           ELSE pc' = [pc EXCEPT ![t] = "mutate"] /\ UNCHANGED resp
    /\ UNCHANGED <<activities, last, prev, before, nextStudent, req>>

\* app.py:105-106: `activity["participants"].append(email)` and the return
\* app.py:123-124: `activity["participants"].remove(email)` and the return
Mutate(t) ==
    /\ pc[t] = "mutate"
    /\ LET a == req[t].activity_name
           e == req[t].email
       IN  IF req[t].op = "signup"
           THEN /\ activities' = WithParticipants(activities, a,
                                     ListAppend(activities[a].participants, e))
                /\ Reply(t, Response(200, [message |-> SignedUpMessage(a, e)],
                                     activities))
           ELSE LET r == ListRemove(activities[a].participants, e) IN
                IF r.raised
                THEN /\ activities' = activities
                     /\ Reply(t, InternalServerError(activities))
                ELSE /\ activities' = WithParticipants(activities, a, r.list)
                     /\ Reply(t, Response(200,
                                     [message |-> UnregisteredMessage(a, e)],
                                     activities))
    /\ UNCHANGED <<last, prev, before, nextStudent, req>>

NextConc ==
    \E t \in Threads :
        Receive(t) \/ CheckActivity(t) \/ CheckParticipant(t) \/ Mutate(t)

SpecConc == Init /\ [][NextConc]_vars

----------------------------------------------------------------------------
(* Properties of the requests served one after another (Spec).             *)
(* In a step that is not a stuttering step, last' is the request the step  *)
(* served, `activities` the database it found and activities' the one it   *)
(* left; `last` is the request served just before it and `before` the      *)
(* database that one found.                                                *)

NoDuplicates(lst) == \A i, j \in 1..Len(lst) : i # j => lst[i] # lst[j]

SameRequest(c, d) ==
    c.op = d.op /\ c.activity_name = d.activity_name /\ c.email = d.email

AlreadyEnrolled(c) ==
    /\ c.status = 400
    /\ c.body = [detail |-> "Student already signed up for this activity"]

NotEnrolled(c) ==
    /\ c.status = 400
    /\ c.body = [detail |-> "Student not registered for this activity"]

NotFound(c) ==
    /\ c.status = 404
    /\ c.body = [detail |-> "Activity not found"]

\* C1: whatever requests were served one after another from the seed data, no
\* activity's participant list holds the same email twice.
C1_NoDuplicateParticipants ==
    \A a \in DOMAIN activities : NoDuplicates(Participants(activities, a))

\* A signup of a student who had signed up before was just refused.
C1_Witness ==
    /\ last.op = "signup" /\ last.status = 400
    /\ last.activity_name \in DOMAIN activities
    /\ Len(Participants(activities, last.activity_name))
         > Len(Participants(SeedActivities, last.activity_name))

\* C2, as stated: for every pair of an activity of the database and an email,
\* a signup followed at once by the same signup has the second one refused as
\* already signed up, and the list is one longer than before the first call,
\* the second call adding nothing.
C2_AsStated ==
    [][ (/\ last'.op = "signup" /\ SameRequest(last, last')
         /\ last'.activity_name \in DOMAIN activities)
        => /\ AlreadyEnrolled(last')
           /\ activities' = activities
           /\ Len(Participants(activities', last'.activity_name))
                = Len(Participants(before, last'.activity_name)) + 1 ]_vars

\* C2, amended: the second signup is refused as already signed up and changes
\* nothing; the list is one longer than before the first call when the first
\* call succeeded, and as long as before when the first call was refused too.
C2_SecondSignupRefused ==
    [][ (/\ last'.op = "signup" /\ SameRequest(last, last')
         /\ last'.activity_name \in DOMAIN activities)
        => /\ AlreadyEnrolled(last')
           /\ activities' = activities
           /\ last.status \in {200, 400}
           /\ Len(Participants(activities', last'.activity_name))
                = Len(Participants(before, last'.activity_name))
                    + (IF last.status = 200 THEN 1 ELSE 0) ]_vars

\* A successful signup was followed at once by the same signup, refused.
C2_Witness ==
    /\ prev.op = "signup" /\ prev.status = 200
    /\ last.op = "signup" /\ SameRequest(prev, last) /\ AlreadyEnrolled(last)
    /\ Len(Participants(activities, last.activity_name))
         = Len(Participants(SeedActivities, last.activity_name)) + 1

\* C3: an unregister of a student who is in the activity's list succeeds and
\* leaves the student out of it; the same unregister right after it, or at any
\* later time while the student is out of the list, is refused as not
\* registered and changes nothing; and only a successful signup of that
\* student for that activity puts the student into the list.
C3_UnregisterSucceedsOnce ==
    [][ /\ (last'.op = "unregister" /\ last'.activity_name \in DOMAIN activities)
           => LET a == last'.activity_name
                  p == last'.email
              IN  /\ Contains(Participants(activities, a), p)
                       => /\ last'.status = 200
                          /\ ~Contains(Participants(activities', a), p)
                  /\ (SameRequest(last, last') /\ last.status = 200)
                       => NotEnrolled(last') /\ activities' = activities
                  /\ ~Contains(Participants(activities, a), p)
                       => NotEnrolled(last') /\ activities' = activities
        /\ \A a \in DOMAIN activities :
             \A i \in 1..Len(Participants(activities', a)) :
               LET p == Participants(activities', a)[i]
               IN  ~Contains(Participants(activities, a), p)
                     => /\ last'.op = "signup" /\ last'.status = 200
                        /\ last'.activity_name = a /\ last'.email = p ]_vars

\* A successful unregister was followed at once by the same unregister, refused.
C3_Witness ==
    /\ prev.op = "unregister" /\ prev.status = 200
    /\ last.op = "unregister" /\ SameRequest(prev, last) /\ NotEnrolled(last)
    /\ ~Contains(Participants(activities, last.activity_name), last.email)
    /\ Contains(Participants(SeedActivities, last.activity_name), last.email)

\* C4: a signup or an unregister that names no activity of the database is
\* answered 404 "Activity not found" and changes nothing, and the set of
\* activity names is the seed's in every state, before and after every request.
C4_UnknownActivityNotFound ==
    [][ /\ (last'.op \in {"signup", "unregister"}
              /\ last'.activity_name \notin DOMAIN activities)
           => NotFound(last') /\ activities' = activities
        /\ DOMAIN activities = SeedNames
        /\ DOMAIN activities' = SeedNames ]_vars

\* A signup and then an unregister for a missing activity, after a signup for
\* that name was already refused: both answered 404.
C4_Witness ==
    /\ prev.op = "signup" /\ prev.status = 404
    /\ last.op = "unregister" /\ NotFound(last)
    /\ last.activity_name = prev.activity_name
    /\ last.activity_name \notin DOMAIN activities
    /\ activities # SeedActivities

\* C5, as stated: for every activity of the database and every email, a signup
\* followed at once by the unregister of the same pair leaves the activity's
\* list as it was before the signup.
C5_AsStated ==
    [][ (/\ last.op = "signup" /\ last'.op = "unregister"
         /\ last'.activity_name = last.activity_name /\ last'.email = last.email
         /\ last'.activity_name \in DOMAIN activities)
        => Participants(activities', last'.activity_name)
             = Participants(before, last'.activity_name) ]_vars

\* C5, amended: the same, for a signup that succeeded (the student was not in
\* the list before it).
C5_RoundTrip ==
    [][ (/\ last.op = "signup" /\ last.status = 200 /\ last'.op = "unregister"
         /\ last'.activity_name = last.activity_name /\ last'.email = last.email
         /\ last'.activity_name \in DOMAIN activities)
        => /\ last'.status = 200
           /\ Participants(activities', last'.activity_name)
                = Participants(before, last'.activity_name) ]_vars

\* A successful signup into a list of at least two was undone by the unregister
\* right after it.
C5_Witness ==
    /\ prev.op = "signup" /\ prev.status = 200
    /\ last.op = "unregister" /\ last.status = 200
    /\ last.activity_name = prev.activity_name /\ last.email = prev.email
    /\ Len(Participants(activities, last.activity_name)) >= 2

\* C6: a successful signup leaves the activity's list equal to the list it
\* found followed by the email, and answers "Signed up {email} for {activity}".
C6_SignupAppends ==
    [][ (last'.op = "signup" /\ last'.status = 200)
        => LET a == last'.activity_name
               p == last'.email
           IN  /\ a \in DOMAIN activities
               /\ Participants(activities', a) = Participants(activities, a) \o <<p>>
               /\ Len(Participants(activities', a))
                    = Len(Participants(activities, a)) + 1
               /\ \A i \in 1..Len(Participants(activities, a)) :
                    Participants(activities', a)[i] = Participants(activities, a)[i]
               /\ last'.body = [message |-> "Signed up " \o p \o " for " \o a] ]_vars

\* The tests' new student signed up for "Soccer Team" and is third in its list.
C6_Witness ==
    /\ last.op = "signup" /\ last.status = 200
    /\ last.body = [message |-> "Signed up newstudent@mergington.edu for Soccer Team"]
    /\ Participants(before, "Soccer Team")
         = <<"alex@mergington.edu", "sarah@mergington.edu">>
    /\ Participants(activities, "Soccer Team")
         = <<"alex@mergington.edu", "sarah@mergington.edu",
             "newstudent@mergington.edu">>

\* C7: a GET /activities leaves the database as it found it and answers 200
\* with it, and answers the same as the GET served right before it.
C7_ListDoesNotMutate ==
    [][ last'.op = "get"
        => /\ activities' = activities
           /\ last'.status = 200
           /\ last'.body = activities
           /\ (last.op = "get" => last'.body = last.body) ]_vars

\* Two GETs in a row, on a database that signups and unregisters have changed.
C7_Witness ==
    /\ prev.op = "get" /\ last.op = "get"
    /\ last.body = activities
    /\ activities # SeedActivities

\* C11: a signup for an activity of the database succeeds exactly when the
\* student is not in that activity's own list, whatever other lists hold the
\* student; after it the student is in that list and still in every other list
\* that held the student.
C11_SignupPerActivity ==
    [][ (last'.op = "signup" /\ last'.activity_name \in DOMAIN activities)
        => LET a == last'.activity_name
               p == last'.email
           IN  /\ last'.status = 200 <=> ~Contains(Participants(activities, a), p)
               /\ last'.status = 200 => Contains(Participants(activities', a), p)
               /\ \A b \in DOMAIN activities :
                    Contains(Participants(activities, b), p)
                      => Contains(Participants(activities', b), p) ]_vars

\* A student who was already in another activity's list signed up, and is now
\* in both lists.
C11_Witness ==
    /\ last.op = "signup" /\ last.status = 200
    /\ \E b \in DOMAIN before :
         /\ b # last.activity_name
         /\ Contains(Participants(before, b), last.email)
         /\ Contains(Participants(activities, b), last.email)
    /\ Contains(Participants(activities, last.activity_name), last.email)

\* C12: a successful unregister leaves the activity's list equal to the list
\* it found with the one occurrence of the email taken out, the others in the
\* order they had: one shorter, the email no longer in it; and it answers
\* "Unregistered {email} from {activity}".
C12_UnregisterRemovesOne ==
    [][ (last'.op = "unregister" /\ last'.status = 200)
        => LET a == last'.activity_name
               p == last'.email
               old == Participants(activities, a)
               new == Participants(activities', a)
           IN  /\ a \in DOMAIN activities
               /\ Len(new) = Len(old) - 1
               /\ ~Contains(new, p)
               /\ \E i \in 1..Len(old) :
                    /\ old[i] = p
                    /\ \A j \in 1..Len(new) :
                         new[j] = IF j < i THEN old[j] ELSE old[j + 1]
               /\ last'.body = [message |-> "Unregistered " \o p \o " from " \o a] ]_vars

\* The first of three participants of "Soccer Team" unregistered: the other two
\* stay, in their order.
C12_Witness ==
    /\ last.op = "unregister" /\ last.status = 200
    /\ last.body = [message |-> "Unregistered alex@mergington.edu from Soccer Team"]
    /\ Participants(before, "Soccer Team")
         = <<"alex@mergington.edu", "sarah@mergington.edu",
             "newstudent@mergington.edu">>
    /\ Participants(activities, "Soccer Team")
         = <<"sarah@mergington.edu", "newstudent@mergington.edu">>

\* C13: a signup answered not found or already signed up, and an unregister
\* answered not found or not registered, leaves every activity's list as the
\* request found it; and a request that is not answered 200 is one of these.
C13_FailureChangesNothing ==
    [][ (last'.op \in {"signup", "unregister"} /\ last'.status # 200)
        => /\ activities' = activities
           /\ \A a \in DOMAIN activities :
                Participants(activities', a) = Participants(activities, a)
           /\ IF last'.op = "signup"
              THEN NotFound(last') \/ AlreadyEnrolled(last')
              ELSE NotFound(last') \/ NotEnrolled(last') ]_vars

\* On a database that earlier requests changed, an unregister was refused as
\* not registered right after a signup was refused as already signed up: the
\* database is as both found it.
C13_Witness ==
    /\ prev.op = "signup" /\ prev.status = 400
    /\ last.op = "unregister" /\ NotEnrolled(last)
    /\ activities = before
    /\ activities # SeedActivities

\* C14: a signup or an unregister for an activity leaves the participant lists
\* of all other activities as it found them; and in every state the activity
\* names and each activity's description, schedule and max_participants are the
\* seed's.
C14_OnlyOneListChanges ==
    [][ /\ \A b \in DOMAIN activities :
             (last'.op = "get" \/ b # last'.activity_name)
               => Participants(activities', b) = Participants(activities, b)
        /\ DOMAIN activities' = SeedNames
        /\ \A b \in SeedNames :
             /\ activities'[b].description = SeedActivities[b].description
             /\ activities'[b].schedule = SeedActivities[b].schedule
             /\ activities'[b].max_participants = SeedActivities[b].max_participants
             /\ DOMAIN activities'[b]
                  = {"description", "schedule", "max_participants", "participants"}
      ]_vars

\* A signup changed the list of "Chess Club" while the list of "Soccer Team",
\* changed by earlier requests, stayed as it was.
C14_Witness ==
    /\ last.op = "signup" /\ last.status = 200 /\ last.activity_name = "Chess Club"
    /\ Participants(activities, "Chess Club") # Participants(before, "Chess Club")
    /\ Participants(activities, "Soccer Team") = Participants(before, "Soccer Team")
    /\ Participants(activities, "Soccer Team")
         # Participants(SeedActivities, "Soccer Team")

\* C15: for an activity of the database, a signup succeeds exactly when the
\* student is not in the list at that moment and an unregister exactly when
\* the student is in it, whatever was requested before; a successful signup
\* leaves the student last in the list, also a student who was in the list
\* earlier at another place.
C15_OutcomeFromMembership ==
    [][ (/\ last'.op \in {"signup", "unregister"}
         /\ last'.activity_name \in DOMAIN activities)
        => LET a == last'.activity_name
               p == last'.email
               old == Participants(activities, a)
               new == Participants(activities', a)
           IN  /\ last'.op = "signup"
                    => /\ last'.status = 200 <=> ~Contains(old, p)
                       /\ last'.status = 200
                            => /\ Len(new) = Len(old) + 1
                               /\ new[Len(new)] = p
                               /\ IndexOf(new, p) = Len(new)
               /\ last'.op = "unregister"
                    => (last'.status = 200 <=> Contains(old, p)) ]_vars

\* alex, first in the seed list of "Soccer Team", unregistered and signed up
\* again right away: alex is now behind sarah.
C15_Witness ==
    /\ prev.op = "unregister" /\ prev.status = 200
    /\ prev.activity_name = "Soccer Team" /\ prev.email = "alex@mergington.edu"
    /\ last.op = "signup" /\ last.status = 200 /\ SameRequest(Summary(last),
           [prev EXCEPT !.op = "signup"])
    /\ IndexOf(Participants(SeedActivities, "Soccer Team"), "alex@mergington.edu") = 1
    /\ IndexOf(Participants(activities, "Soccer Team"), "alex@mergington.edu")
         = Len(Participants(activities, "Soccer Team"))
    /\ IndexOf(Participants(activities, "Soccer Team"), "sarah@mergington.edu")
         < IndexOf(Participants(activities, "Soccer Team"), "alex@mergington.edu")

----------------------------------------------------------------------------
(* Properties of SpecCap.                                                  *)

\* C8: a signup for an activity of the database by a student who is not in its
\* list succeeds and makes the list one longer, whatever the list's length is,
\* max_participants or more included.
C8_NoCapacityCheck ==
    [][ (/\ last'.op = "signup"
         /\ last'.activity_name \in DOMAIN activities
         /\ ~Contains(Participants(activities, last'.activity_name), last'.email))
        => /\ last'.status = 200
           /\ Len(Participants(activities', last'.activity_name))
                = Len(Participants(activities, last'.activity_name)) + 1 ]_vars

\* A signup succeeded for an activity that was already full: its list is now
\* longer than max_participants.
C8_Witness ==
    /\ last.op = "signup" /\ last.status = 200
    /\ Len(Participants(before, last.activity_name))
         >= before[last.activity_name].max_participants
    /\ Len(Participants(activities, last.activity_name))
         > activities[last.activity_name].max_participants

----------------------------------------------------------------------------
(* Properties of SpecConc.                                                 *)

AllDone == \A t \in Threads : pc[t] = "done"

Handle(acts, r) ==
    IF r.op = "signup"
    THEN signup_for_activity(acts, r.activity_name, r.email)
    ELSE unregister_from_activity(acts, r.activity_name, r.email)

\* The requests of the threads order[i], order[i+1], ... served one after
\* another, each handler run from start to end, from the database acts: the
\* database left and each thread's response.
RECURSIVE Sequential(_, _, _, _)
Sequential(acts, order, i, resps) ==
    IF i > Len(order)
    THEN [acts |-> acts, resps |-> resps]
    ELSE LET r == Handle(acts, req[order[i]])
         IN  Sequential(r.acts, order, i + 1,
                        [resps EXCEPT ![order[i]] =
                            [status |-> r.status, body |-> r.body]])

Orders == { o \in [1..NumThreads -> Threads] :
              \A i, j \in 1..NumThreads : i # j => o[i] # o[j] }

\* C9, as stated: when the threads' requests have all been answered, the
\* responses and the database are those that serving the same requests one
\* after another, in some order, gives from the seed data.
C9_AsStated ==
    AllDone => \E o \in Orders :
                 LET s == Sequential(SeedActivities, o, 1, resp)
                 IN  s.acts = activities /\ s.resps = resp

\* C10, as stated: every signup ends in success, not found or already signed
\* up, and every unregister in success, not found or not registered (the
\* list's remove run for an email that is not in the list raises ValueError,
\* which is answered 500).
C10_AsStated ==
    \A t \in Threads :
        /\ (pc[t] = "done" /\ req[t].op = "signup")
             => \/ resp[t].status = 200
                \/ NotFound(resp[t])
                \/ AlreadyEnrolled(resp[t])
        /\ (pc[t] = "done" /\ req[t].op = "unregister")
             => \/ resp[t].status = 200
                \/ NotFound(resp[t])
                \/ NotEnrolled(resp[t])

====
